---------------------------- MODULE Spec2Model ----------------------------
(***************************************************************************)
(* Model of check.py, the checker/formatter of the SDL game controller     *)
(* mapping database.  Text is modelled as sequences of one-character       *)
(* strings, so that the CSV reader, the field grammar, the serializer and  *)
(* the GUID rewrite operate on characters as the program does.             *)
(***************************************************************************)
EXTENDS Integers, Sequences, FiniteSets, TLC

NL == "\n"

Min(a, b) == IF a < b THEN a ELSE b

(* ---- Python string primitives used by check.py ------------------------ *)

\* s[i:j] with Python's clamping of out-of-range indices (0 <= i, j).
Slice(s, i, j) == SubSeq(s, Min(i, Len(s)) + 1, Min(j, Len(s)))

\* s[i:]
SliceFrom(s, i) == Slice(s, i, Len(s))

\* s.startswith(p)
StartsWith(s, p) == Len(p) <= Len(s) /\ SubSeq(s, 1, Len(p)) = p

\* sub in s
Contains(s, sub) ==
  \E i \in 0..(Len(s) - Len(sub)) : SubSeq(s, i + 1, i + Len(sub)) = sub

\* s.replace(old, new): every non-overlapping occurrence, left to right.
RECURSIVE Replace(_, _, _)
Replace(s, old, new) ==
  IF s = <<>> THEN <<>>
  ELSE IF StartsWith(s, old)
       THEN new \o Replace(SubSeq(s, Len(old) + 1, Len(s)), old, new)
       ELSE <<Head(s)>> \o Replace(Tail(s), old, new)

\* s.split(sep) for a one-character separator: always at least one part.
RECURSIVE SplitFrom(_, _, _)
SplitFrom(s, sep, cur) ==
  IF s = <<>> THEN <<cur>>
  ELSE IF Head(s) = sep THEN <<cur>> \o SplitFrom(Tail(s), sep, <<>>)
       ELSE SplitFrom(Tail(s), sep, Append(cur, Head(s)))

Split(s, sep) == SplitFrom(s, sep, <<>>)

\* string.hexdigits
hexdigits ==
  {"0", "1", "2", "3", "4", "5", "6", "7", "8", "9",
   "a", "b", "c", "d", "e", "f", "A", "B", "C", "D", "E", "F"}

Digits == {"0", "1", "2", "3", "4", "5", "6", "7", "8", "9"}

UpperToLower ==
  "A" :> "a" @@ "B" :> "b" @@ "C" :> "c" @@ "D" :> "d" @@ "E" :> "e" @@
  "F" :> "f" @@ "G" :> "g" @@ "H" :> "h" @@ "I" :> "i" @@ "J" :> "j" @@
  "K" :> "k" @@ "L" :> "l" @@ "M" :> "m" @@ "N" :> "n" @@ "O" :> "o" @@
  "P" :> "p" @@ "Q" :> "q" @@ "R" :> "r" @@ "S" :> "s" @@ "T" :> "t" @@
  "U" :> "u" @@ "V" :> "v" @@ "W" :> "w" @@ "X" :> "x" @@ "Y" :> "y" @@
  "Z" :> "z"

\* s.lower()
Lower(s) ==
  [i \in 1..Len(s) |-> IF s[i] \in DOMAIN UpperToLower THEN UpperToLower[s[i]]
                                                       ELSE s[i]]

\* Code points, for Python's ordering of strings.
CodePoint ==
  "\n" :> 10 @@ " " :> 32 @@ "\"" :> 34 @@ "#" :> 35 @@ "+" :> 43 @@ "," :> 44 @@
  "-" :> 45 @@ "." :> 46 @@ "0" :> 48 @@ "1" :> 49 @@ "2" :> 50 @@ "3" :> 51 @@
  "4" :> 52 @@ "5" :> 53 @@ "6" :> 54 @@ "7" :> 55 @@ "8" :> 56 @@ "9" :> 57 @@
  ":" :> 58 @@ "A" :> 65 @@ "B" :> 66 @@ "C" :> 67 @@ "D" :> 68 @@ "E" :> 69 @@
  "F" :> 70 @@ "G" :> 71 @@ "H" :> 72 @@ "I" :> 73 @@ "J" :> 74 @@ "K" :> 75 @@
  "L" :> 76 @@ "M" :> 77 @@ "N" :> 78 @@ "O" :> 79 @@ "P" :> 80 @@ "Q" :> 81 @@
  "R" :> 82 @@ "S" :> 83 @@ "T" :> 84 @@ "U" :> 85 @@ "V" :> 86 @@ "W" :> 87 @@
  "X" :> 88 @@ "Y" :> 89 @@ "Z" :> 90 @@ "a" :> 97 @@ "b" :> 98 @@ "c" :> 99 @@
  "d" :> 100 @@ "e" :> 101 @@ "f" :> 102 @@ "g" :> 103 @@ "h" :> 104 @@ "i" :> 105 @@
  "j" :> 106 @@ "k" :> 107 @@ "l" :> 108 @@ "m" :> 109 @@ "n" :> 110 @@ "o" :> 111 @@
  "p" :> 112 @@ "q" :> 113 @@ "r" :> 114 @@ "s" :> 115 @@ "t" :> 116 @@ "u" :> 117 @@
  "v" :> 118 @@ "w" :> 119 @@ "x" :> 120 @@ "y" :> 121 @@ "z" :> 122 @@ "~" :> 126

\* a < b for Python strings.
RECURSIVE StrLess(_, _)
StrLess(a, b) ==
  IF b = <<>> THEN FALSE
  ELSE IF a = <<>> THEN TRUE
  ELSE IF Head(a) = Head(b) THEN StrLess(Tail(a), Tail(b))
  ELSE CodePoint[Head(a)] < CodePoint[Head(b)]

(* ---- csv.reader([mappingstring], skipinitialspace=True) ---------------- *)

\* One character of the reader's state machine.  st is the parser state,
\* fields the fields saved so far, field the field being collected.
ReaderChar(r, c) ==
  LET save == [r EXCEPT !.fields = Append(r.fields, r.field), !.field = <<>>]
      add  == [r EXCEPT !.field = Append(r.field, c)]
      startField ==
        IF c = NL THEN [save EXCEPT !.st = "EAT_CRNL"]
        ELSE IF c = "\"" THEN [r EXCEPT !.st = "IN_QUOTED_FIELD"]
        ELSE IF c = " " THEN [r EXCEPT !.st = "START_FIELD"]
        ELSE IF c = "," THEN [save EXCEPT !.st = "START_FIELD"]
        ELSE [add EXCEPT !.st = "IN_FIELD"]
  IN CASE r.st = "START_RECORD" ->
            IF c = NL THEN [r EXCEPT !.st = "EAT_CRNL"] ELSE startField
       [] r.st = "START_FIELD" -> startField
       [] r.st = "IN_FIELD" ->
            IF c = NL THEN [save EXCEPT !.st = "EAT_CRNL"]
            ELSE IF c = "," THEN [save EXCEPT !.st = "START_FIELD"]
            ELSE add
       [] r.st = "IN_QUOTED_FIELD" ->
            IF c = "\"" THEN [r EXCEPT !.st = "QUOTE_IN_QUOTED_FIELD"]
            ELSE add
       [] r.st = "QUOTE_IN_QUOTED_FIELD" ->
            IF c = "\"" THEN [add EXCEPT !.st = "IN_QUOTED_FIELD"]
            ELSE IF c = "," THEN [save EXCEPT !.st = "START_FIELD"]
            ELSE IF c = NL THEN [save EXCEPT !.st = "EAT_CRNL"]
            ELSE [add EXCEPT !.st = "IN_FIELD"]
       [] r.st = "EAT_CRNL" ->
            IF c = NL THEN r ELSE [r EXCEPT !.st = "ERROR"]
       [] r.st = "ERROR" -> r

\* The reader fed the characters of s in order (split in halves to keep the
\* evaluation shallow; the result is that of a left-to-right pass).
RECURSIVE ReaderRun(_, _)
ReaderRun(r, s) ==
  IF s = <<>> THEN r
  ELSE IF Len(s) = 1 THEN ReaderChar(r, s[1])
  ELSE LET h == Len(s) \div 2
           left == ReaderRun(r, SubSeq(s, 1, h))
       IN IF left.st = "ERROR" THEN left
          ELSE ReaderRun(left, SubSeq(s, h + 1, Len(s)))

\* End of the only line: the pending field is saved, also when the line ends
\* inside a quoted field (the reader is not strict).
ReaderEnd(r) ==
  CASE r.st \in {"START_FIELD", "IN_FIELD", "QUOTE_IN_QUOTED_FIELD",
                 "IN_QUOTED_FIELD"} -> Append(r.fields, r.field)
    [] OTHER -> r.fields

\* next(reader): [error, fields].  error stands for csv.Error.
csv_reader(line) ==
  LET r == ReaderRun([st |-> "START_RECORD", fields |-> <<>>, field |-> <<>>],
                     line)
  IN [error |-> r.st = "ERROR", fields |-> ReaderEnd(r)]

\* list(filter(None, mapping))
RECURSIVE FilterNone(_)
FilterNone(m) ==
  IF m = <<>> THEN <<>>
  ELSE IF Head(m) = <<>> THEN FilterNone(Tail(m))
       ELSE <<Head(m)>> \o FilterNone(Tail(m))

(* ---- module-level data ------------------------------------------------- *)

\* Keys of mappings_dict, in the order the dict literal lists them.
Platforms == <<<<"W", "i", "n", "d", "o", "w", "s">>, <<"M", "a", "c", " ", "O", "S", " ", "X">>, <<"L", "i", "n", "u", "x">>, <<"A", "n", "d", "r", "o", "i", "d">>>>

PlatformSet == {Platforms[i] : i \in 1..Len(Platforms)}

ZEROS12 == <<"0", "0", "0", "0", "0", "0", "0", "0", "0", "0", "0", "0">>

PIDVID == <<"5", "0", "4", "9", "4", "4", "5", "6", "4", "9", "4", "4">>

(* ---- class Mapping ----------------------------------------------------- *)

\* The five (prefix, pattern) entries of BUTTON_REGEXES, in dict order.
BUTTON_REGEXES ==
  << [butt |-> <<"+", "a">>, regex |-> "axis"],
     [butt |-> <<"-", "a">>, regex |-> "axis"],
     [butt |-> <<"a">>,  regex |-> "axis"],
     [butt |-> <<"b">>,  regex |-> "button"],
     [butt |-> <<"h">>,  regex |-> "hat"] >>

\* [0-9]+
AllDigits(s) == s # <<>> /\ \A i \in 1..Len(s) : s[i] \in Digits

\* [0-9]+\~?
AxisBody(s) ==
  \/ AllDigits(s)
  \/ Len(s) >= 2 /\ s[Len(s)] = "~" /\ AllDigits(SubSeq(s, 1, Len(s) - 1))

\* (0|1|2|4|8|3|6|12|9)
HatMasks == {<<"0">>, <<"1">>, <<"2">>, <<"4">>, <<"8">>, <<"3">>, <<"6">>, <<"1", "2">>, <<"9">>}

\* [0-9]+\.(0|1|2|4|8|3|6|12|9)
HatBody(s) ==
  \E i \in 1..Len(s) :
     /\ s[i] = "."
     /\ AllDigits(SubSeq(s, 1, i - 1))
     /\ SubSeq(s, i + 1, Len(s)) \in HatMasks

RegexBody(regex, s) ==
  CASE regex = "axis"   -> AxisBody(s)
    [] regex = "button" -> AllDigits(s)
    [] regex = "hat"    -> HatBody(s)

\* regex.match(val) for a pattern ^body$: Python's $ also matches just
\* before a newline that ends the string.
RegexMatch(regex, s) ==
  \/ RegexBody(regex, s)
  \/ s # <<>> /\ s[Len(s)] = NL /\ RegexBody(regex, SubSeq(s, 1, Len(s) - 1))

\* The names of the dict literal assigned to self.__keys.  The literal has
\* no ': "",' after "+righty", so Python joins the two adjacent string
\* literals "+righty" "-leftx" into one key.
KeyNames ==
  { <<"+", "l", "e", "f", "t", "x">>, <<"+", "l", "e", "f", "t", "y">>, <<"+", "r", "i", "g", "h", "t", "x">>,
    <<"+", "r", "i", "g", "h", "t", "y">> \o <<"-", "l", "e", "f", "t", "x">>,
    <<"-", "l", "e", "f", "t", "y">>, <<"-", "r", "i", "g", "h", "t", "x">>, <<"-", "r", "i", "g", "h", "t", "y">>,
    <<"a">>, <<"b">>, <<"b", "a", "c", "k">>, <<"d", "p", "d", "o", "w", "n">>, <<"d", "p", "l", "e", "f", "t">>, <<"d", "p", "r", "i", "g", "h", "t">>, <<"d", "p", "u", "p">>,
    <<"g", "u", "i", "d", "e">>, <<"l", "e", "f", "t", "s", "h", "o", "u", "l", "d", "e", "r">>, <<"l", "e", "f", "t", "s", "t", "i", "c", "k">>, <<"l", "e", "f", "t", "t", "r", "i", "g", "g", "e", "r">>,
    <<"l", "e", "f", "t", "x">>, <<"l", "e", "f", "t", "y">>, <<"r", "i", "g", "h", "t", "s", "h", "o", "u", "l", "d", "e", "r">>, <<"r", "i", "g", "h", "t", "s", "t", "i", "c", "k">>,
    <<"r", "i", "g", "h", "t", "t", "r", "i", "g", "g", "e", "r">>, <<"r", "i", "g", "h", "t", "x">>, <<"r", "i", "g", "h", "t", "y">>, <<"s", "t", "a", "r", "t">>, <<"x">>, <<"y">> }

\* self.__keys after the literal: every name mapped to "".
InitialKeys == [k \in KeyNames |-> <<>>]

NoKeys == [k \in {} |-> <<>>]

\* The result of a constructor call that raised.
Raised(exc, msg, detail, dups) ==
  [status |-> exc, error |-> msg, detail |-> detail, dups |-> dups,
   guid |-> <<>>, name |-> <<>>, platform |-> <<>>, keys |-> NoKeys,
   linenumber |-> 0]

set_guid(guid) ==
  IF guid = <<"x", "i", "n", "p", "u", "t">> THEN [raised |-> "", guid |-> guid]
  ELSE IF Len(guid) # 32
       THEN [raised |-> "GUID length must be 32.", guid |-> <<>>]
  ELSE IF ~(\A i \in 1..Len(guid) : guid[i] \in hexdigits)
       THEN [raised |-> "GUID malformed.", guid |-> <<>>]
  ELSE [raised |-> "", guid |-> guid]

\* re.sub(r" +", " ", name)
RECURSIVE set_name(_)
set_name(name) ==
  IF name = <<>> THEN <<>>
  ELSE IF Head(name) = " " /\ Len(name) >= 2 /\ name[2] = " "
       THEN set_name(Tail(name))
       ELSE <<Head(name)>> \o set_name(Tail(name))

get_missing_platform(guid) ==
  IF Slice(guid, 20, 32) = PIDVID
  THEN [raised |-> "", kv |-> <<"p", "l", "a", "t", "f", "o", "r", "m", ":", "W", "i", "n", "d", "o", "w", "s">>]
  ELSE IF Slice(guid, 4, 16) = ZEROS12 /\ Slice(guid, 20, 32) = ZEROS12
  THEN [raised |-> "", kv |-> <<"p", "l", "a", "t", "f", "o", "r", "m", ":", "M", "a", "c", " ", "O", "S", " ", "X">>]
  ELSE [raised |-> "Add missing platform : Cannot determine platform confidently.",
        kv |-> <<>>]

\* mapping.index(x): position of the first element equal to x.
Index(mapping, x) ==
  CHOOSE i \in 1..Len(mapping) :
     mapping[i] = x /\ \A j \in 1..(i - 1) : mapping[j] # x

\* mapping.pop(index)
Pop(mapping, i) == SubSeq(mapping, 1, i - 1) \o SubSeq(mapping, i + 1, Len(mapping))

set_platform(guid, mapping, add_missing_platform) ==
  LET hits == {i \in 1..Len(mapping) : Contains(mapping[i], <<"p", "l", "a", "t", "f", "o", "r", "m", ":">>)}
      found == hits # {}
      first == CHOOSE i \in hits : \A j \in hits : i <= j
      inferred == get_missing_platform(guid)
      fail(msg) == [raised |-> msg, platform |-> <<>>, mapping |-> mapping]
  IN IF ~found /\ ~add_missing_platform
     THEN fail("Required 'platform' field not found.")
     ELSE IF ~found /\ inferred.raised # ""
     THEN fail(inferred.raised)
     ELSE LET platform_kv == IF found THEN mapping[first] ELSE inferred.kv
              platform == Split(platform_kv, ":")[2]
          IN IF platform \notin PlatformSet
             THEN fail("Invalid platform.")
             ELSE [raised |-> "", platform |-> platform,
                   mapping |-> IF found
                               THEN Pop(mapping, Index(mapping, platform_kv))
                               ELSE mapping]

\* The inner loop of set_keys over BUTTON_REGEXES, from entry j on: the first
\* prefix button_val starts with decides; with no such prefix the loop ends
\* without assigning and without raising.
RECURSIVE set_value(_, _)
set_value(button_val, j) ==
  IF j > Len(BUTTON_REGEXES)
  THEN [outcome |-> "none", butt |-> <<>>, val |-> <<>>]
  ELSE LET butt == BUTTON_REGEXES[j].butt
           val == Replace(button_val, butt, <<>>)
       IN IF ~StartsWith(button_val, butt)
          THEN set_value(button_val, j + 1)
          ELSE IF ~RegexMatch(BUTTON_REGEXES[j].regex, val)
               THEN [outcome |-> "raise", butt |-> butt, val |-> val]
               ELSE [outcome |-> "assign", butt |-> butt, val |-> val]

\* The end of one iteration of the outer loop of set_keys, for a token whose
\* key is known and unassigned: v is what the loop over BUTTON_REGEXES did.
set_keys_value(acc, button_key, button_val, v) ==
  IF v.outcome = "raise"
  THEN [acc EXCEPT !.raised = "Invalid value.", !.detail = <<v.butt, v.val>>]
  ELSE IF v.outcome = "assign"
  THEN [acc EXCEPT !.keys[button_key] = button_val]
  ELSE acc

\* One iteration of the outer loop of set_keys, after kv.split(':') gave
\* exactly two parts.
set_keys_pair(acc, kv, button_key, button_val) ==
  IF button_key \notin DOMAIN acc.keys
  THEN [acc EXCEPT !.raised = "Unrecognized key.", !.detail = <<button_key>>]
  ELSE IF acc.keys[button_key] # <<>>
  THEN [acc EXCEPT !.throw = TRUE,
                   !.error_msg = Append(@, [kv |-> kv, key |-> button_key,
                                            was |-> acc.keys[button_key]])]
  ELSE set_keys_value(acc, button_key, button_val, set_value(button_val, 1))

\* button_key, button_val = kv.split(':'), then the rest of the iteration.
set_keys_token(acc, kv, parts) ==
  IF Len(parts) < 2
  THEN [acc EXCEPT !.raised = "not enough values to unpack"]
  ELSE IF Len(parts) > 2
  THEN [acc EXCEPT !.raised = "too many values to unpack"]
  ELSE set_keys_pair(acc, kv, parts[1], parts[2])

\* The loop of set_keys from token i on, and the raise after it.  An
\* exception raised inside an iteration ends the loop.
RECURSIVE set_keys_from(_, _, _)
set_keys_from(mapping, i, acc) ==
  IF acc.raised # "" THEN acc
  ELSE IF i > Len(mapping)
  THEN IF acc.throw
       THEN [acc EXCEPT !.raised = "Duplicate keys detected."]
       ELSE acc
  ELSE set_keys_from(mapping, i + 1,
                     set_keys_token(acc, mapping[i], Split(mapping[i], ":")))

set_keys(mapping) ==
  set_keys_from(mapping, 1,
                [keys |-> InitialKeys, throw |-> FALSE, error_msg |-> <<>>,
                 raised |-> "", detail |-> <<>>])

\* {k:v for (k,v) in self.__keys.items() if v is not ""}
RemoveEmpty(keys) == [k \in {x \in DOMAIN keys : keys[x] # <<>>} |-> keys[k]]

\* The end of __init__: k is what set_keys did.
init_keys(guid, name, platform, k, linenumber) ==
  IF k.raised # ""
  THEN Raised("ValueError", k.raised, k.detail,
              IF k.throw /\ k.raised = "Duplicate keys detected."
              THEN k.error_msg ELSE <<>>)
  ELSE [status |-> "ok", error |-> "", detail |-> <<>>, dups |-> <<>>,
        guid |-> guid, name |-> name, platform |-> platform,
        keys |-> RemoveEmpty(k.keys), linenumber |-> linenumber]

\* __init__ from self.set_keys(mapping) on: p is what set_platform did.
init_platform(guid, name, p, linenumber) ==
  IF p.raised # ""
  THEN Raised("ValueError", p.raised, <<>>, <<>>)
  ELSE init_keys(guid, name, p.platform, set_keys(p.mapping), linenumber)

\* __init__ from the first mapping.pop(0) on: g is what set_guid did, mapping
\* the fields after the guid.
init_name(g, mapping, linenumber, add_missing_platform) ==
  IF g.raised # ""
  THEN Raised("ValueError", g.raised, <<>>, <<>>)
  ELSE IF mapping = <<>>
  THEN Raised("IndexError", "list index out of range", <<>>, <<>>)
  ELSE init_platform(g.guid, set_name(mapping[1]),
                     set_platform(g.guid, Tail(mapping), add_missing_platform),
                     linenumber)

\* __init__ from self.set_guid(mapping[0]) on: mapping is the list of the
\* non-empty fields.
init_guid(mapping, linenumber, add_missing_platform) ==
  IF mapping = <<>>
  THEN Raised("IndexError", "list index out of range", <<>>, <<>>)
  ELSE init_name(set_guid(mapping[1]), Tail(mapping), linenumber,
                 add_missing_platform)

\* __init__ from mapping = list(filter(None, mapping)) on: rd is what
\* next(reader) gave.
init_fields(rd, linenumber, add_missing_platform) ==
  IF rd.error
  THEN Raised("csv.Error", "new-line character seen in unquoted field",
              <<>>, <<>>)
  ELSE init_guid(FilterNone(rd.fields), linenumber, add_missing_platform)

\* Mapping(mappingstring, linenumber, add_missing_platform): the constructed
\* object, or the exception that left the constructor.
Mapping(mappingstring, linenumber, add_missing_platform) ==
  init_fields(csv_reader(mappingstring), linenumber, add_missing_platform)

\* sorted(self.__keys.items()): the keys in increasing string order.
RECURSIVE sorted(_)
sorted(ks) ==
  IF ks = {} THEN <<>>
  ELSE LET least == CHOOSE k \in ks : \A o \in ks \ {k} : StrLess(k, o)
       IN <<least>> \o sorted(ks \ {least})

RECURSIVE serialize_keys(_, _)
serialize_keys(keys, order) ==
  IF order = <<>> THEN <<>>
  ELSE Head(order) \o <<":">> \o keys[Head(order)] \o <<",">>
         \o serialize_keys(keys, Tail(order))

serialize(m) ==
  m.guid \o <<",">> \o m.name \o <<",">>
    \o serialize_keys(m.keys, sorted(DOMAIN m.keys))
    \o <<"p", "l", "a", "t", "f", "o", "r", "m", ":">> \o m.platform \o <<",">>

\* convert_guid() as it would be without the line that zeroes the tail.
convert_guid_keeps_tail(m) ==
  IF m.platform = <<"W", "i", "n", "d", "o", "w", "s">>
  THEN IF Slice(m.guid, 20, 32) # PIDVID THEN m
       ELSE LET g1 == m.guid
                g2 == Slice(g1, 0, 16) \o Slice(g1, 4, 8) \o SliceFrom(g1, 20)
                g3 == Slice(g2, 0, 8) \o Slice(g2, 0, 4) \o SliceFrom(g2, 12)
                g4 == <<"0", "3", "0", "0", "0", "0", "0", "0">> \o SliceFrom(g3, 8)
            IN [m EXCEPT !.guid = Lower(g4)]
  ELSE IF m.platform = <<"M", "a", "c", " ", "O", "S", " ", "X">>
  THEN IF Slice(m.guid, 4, 16) # ZEROS12 \/ Slice(m.guid, 20, 32) # ZEROS12
       THEN m
       ELSE LET g1 == Slice(m.guid, 0, 20) \o ZEROS12
                g3 == Slice(g1, 0, 8) \o Slice(g1, 0, 4) \o SliceFrom(g1, 12)
                g4 == <<"0", "3", "0", "0", "0", "0", "0", "0">> \o SliceFrom(g3, 8)
            IN [m EXCEPT !.guid = Lower(g4)]
  ELSE m

convert_guid(m) ==
  IF m.platform = <<"W", "i", "n", "d", "o", "w", "s">>
  THEN IF Slice(m.guid, 20, 32) # PIDVID THEN m
       ELSE LET g1 == Slice(m.guid, 0, 20) \o ZEROS12
                g2 == Slice(g1, 0, 16) \o Slice(g1, 4, 8) \o SliceFrom(g1, 20)
                g3 == Slice(g2, 0, 8) \o Slice(g2, 0, 4) \o SliceFrom(g2, 12)
                g4 == <<"0", "3", "0", "0", "0", "0", "0", "0">> \o SliceFrom(g3, 8)
            IN [m EXCEPT !.guid = Lower(g4)]
  ELSE IF m.platform = <<"M", "a", "c", " ", "O", "S", " ", "X">>
  THEN IF Slice(m.guid, 4, 16) # ZEROS12 \/ Slice(m.guid, 20, 32) # ZEROS12
       THEN m
       ELSE LET g1 == Slice(m.guid, 0, 20) \o ZEROS12
                g3 == Slice(g1, 0, 8) \o Slice(g1, 0, 4) \o SliceFrom(g1, 12)
                g4 == <<"0", "3", "0", "0", "0", "0", "0", "0">> \o SliceFrom(g3, 8)
            IN [m EXCEPT !.guid = Lower(g4)]
  ELSE m

(* ---- main(): the run over one input file -------------------------------- *)

FILE_HEADER ==
  <<"#", " ", "G", "a", "m", "e", " ", "C", "o", "n", "t", "r", "o", "l", "l", "e", "r", " ", "D", "B", " ", "f", "o", "r", " ", "S", "D", "L", " ", "i", "n", " ", "2", ".", "0", ".", "6", " ", "f", "o", "r", "m", "a", "t", "\n", "#", " ", "S", "o", "u", "r", "c", "e", ":", " ", "h", "t", "t", "p", "s", ":", "/", "/", "g", "i", "t", "h", "u", "b", ".", "c", "o", "m", "/", "g", "a", "b", "o", "m", "d", "q", "/", "S", "D", "L", "_", "G", "a", "m", "e", "C", "o", "n", "t", "r", "o", "l", "l", "e", "r", "D", "B", "\n">>

\* Largest number of lines of a modelled input file.
MaxLines == 3

\* Lines the modelled input files are made of.
LEGACY_WIN == <<"7", "8", "6", "9", "6", "e", "7", "0", "7", "5", "7", "4", "0", "1", "0", "0", "0", "0", "0", "0", "5", "0", "4", "9", "4", "4", "5", "6", "4", "9", "4", "4", ",", "P", "a", "d", " ", "A", ",", "p", "l", "a", "t", "f", "o", "r", "m", ":", "W", "i", "n", "d", "o", "w", "s", ",", "a", ":", "b", "0", ",", "\n">>
LEGACY_WIN_UPPER == <<"7", "8", "6", "9", "6", "E", "7", "0", "7", "5", "7", "4", "0", "1", "0", "0", "0", "0", "0", "0", "5", "0", "4", "9", "4", "4", "5", "6", "4", "9", "4", "4", ",", "P", "a", "d", " ", "E", ",", "p", "l", "a", "t", "f", "o", "r", "m", ":", "W", "i", "n", "d", "o", "w", "s", ",", "a", ":", "b", "0", ",", "\n">>
CURRENT_WIN == <<"0", "3", "0", "0", "0", "0", "0", "0", "7", "8", "6", "9", "0", "1", "0", "0", "6", "e", "7", "0", "0", "0", "0", "0", "0", "0", "0", "0", "0", "0", "0", "0", ",", "P", "a", "d", " ", "B", ",", "p", "l", "a", "t", "f", "o", "r", "m", ":", "W", "i", "n", "d", "o", "w", "s", ",", "a", ":", "b", "1", ",", "\n">>
SAME_GUID_WIN == <<"7", "8", "6", "9", "6", "e", "7", "0", "7", "5", "7", "4", "0", "1", "0", "0", "0", "0", "0", "0", "5", "0", "4", "9", "4", "4", "5", "6", "4", "9", "4", "4", ",", "p", "a", "d", " ", "C", ",", "p", "l", "a", "t", "f", "o", "r", "m", ":", "W", "i", "n", "d", "o", "w", "s", ",", "x", ":", "b", "2", ",", "\n">>
SAME_GUID_LINUX == <<"7", "8", "6", "9", "6", "e", "7", "0", "7", "5", "7", "4", "0", "1", "0", "0", "0", "0", "0", "0", "5", "0", "4", "9", "4", "4", "5", "6", "4", "9", "4", "4", ",", "P", "a", "d", " ", "A", ",", "p", "l", "a", "t", "f", "o", "r", "m", ":", "L", "i", "n", "u", "x", ",", "a", ":", "b", "0", ",", "\n">>
LEGACY_MAC == <<"6", "d", "0", "4", "0", "0", "0", "0", "0", "0", "0", "0", "0", "0", "0", "0", "1", "6", "c", "2", "0", "0", "0", "0", "0", "0", "0", "0", "0", "0", "0", "0", ",", "M", "a", "c", " ", " ", "P", "a", "d", ",", "a", ":", "b", "0", ",", "\n">>
BAD_VALUE == <<"7", "8", "6", "9", "6", "e", "7", "0", "7", "5", "7", "4", "0", "1", "0", "0", "0", "0", "0", "0", "5", "0", "4", "9", "4", "4", "5", "6", "4", "9", "4", "4", ",", "P", "a", "d", " ", "D", ",", "p", "l", "a", "t", "f", "o", "r", "m", ":", "W", "i", "n", "d", "o", "w", "s", ",", "a", ":", "b", "1", "~", ",", "\n">>
ONE_FIELD == <<"x", "i", "n", "p", "u", "t", "\n">>
COMMENT == <<"#", " ", "W", "i", "n", "d", "o", "w", "s", "\n">>
BLANK == <<"\n">>

LinePool ==
  {LEGACY_WIN, LEGACY_WIN_UPPER, CURRENT_WIN, SAME_GUID_WIN, SAME_GUID_LINUX, LEGACY_MAC,
   BAD_VALUE, ONE_FIELD, COMMENT, BLANK}

RECURSIVE FilesOfLength(_)
FilesOfLength(n) ==
  IF n = 0 THEN {<<>>}
  ELSE {Append(f, l) : f \in FilesOfLength(n - 1), l \in LinePool}

InputFiles == UNION {FilesOfLength(n) : n \in 0..MaxLines}

VARIABLES
  \* One run of main() over an input file.
  args,          \* the parsed command line: format, convert_guids, add_missing_platform
  input_file,    \* the lines the open input file yields
  lineno,        \* number of lines the load loop has consumed
  mappings_dict, \* platform -> the (guid, Mapping) items of its dict, in insertion order
  success,
  stdout,        \* the error and duplicate reports printed so far
  pc,            \* position in main()
  converted,     \* number of mappings the conversion loop has visited
  fs,            \* files of the directory: name -> strings written or lines held
  exit_code,     \* -1 while running
  uncaught,      \* the exception that left main(), "" if none
  \* One Mapping built from a line, serialized, and built again from the text.
  p_head,        \* the guid, name and platform fields of the line
  p_tokens,      \* the control tokens of the line
  p_amp,         \* add_missing_platform
  p_mapping,     \* Mapping(line)
  p_text,        \* p_mapping.serialize()
  p_again,       \* Mapping(p_text)
  p_pc,
  \* One Mapping object whose convert_guid() is called repeatedly.
  g_mapping,     \* the object
  g_guids        \* its guid after each call so far

mainVars == <<args, input_file, lineno, mappings_dict, success, stdout, pc,
              converted, fs, exit_code, uncaught>>

parseVars == <<p_head, p_tokens, p_amp, p_mapping, p_text, p_again, p_pc>>

guidVars == <<g_mapping, g_guids>>

vars == <<mainVars, parseVars, guidVars>>

\* No Mapping object.
NoMapping == Raised("", "", <<>>, <<>>)

MainIdle ==
  /\ args = [format |-> FALSE, convert_guids |-> FALSE,
             add_missing_platform |-> FALSE]
  /\ input_file = <<>>
  /\ lineno = 0
  /\ mappings_dict = [p \in PlatformSet |-> <<>>]
  /\ success = TRUE
  /\ stdout = <<>>
  /\ pc = "idle"
  /\ converted = 0
  /\ fs = [n \in {"input"} |-> <<>>]
  /\ exit_code = -1
  /\ uncaught = ""

ParseIdle ==
  /\ p_head = <<>>
  /\ p_tokens = <<>>
  /\ p_amp = FALSE
  /\ p_mapping = NoMapping
  /\ p_text = <<>>
  /\ p_again = NoMapping
  /\ p_pc = "idle"

GuidIdle ==
  /\ g_mapping = NoMapping
  /\ g_guids = <<>>

Init ==
  /\ args \in [format : BOOLEAN, convert_guids : BOOLEAN,
               add_missing_platform : BOOLEAN]
  /\ input_file \in InputFiles
  /\ lineno = 0
  /\ mappings_dict = [p \in PlatformSet |-> <<>>]
  /\ success = TRUE
  /\ stdout = <<>>
  /\ pc = "load"
  /\ converted = 0
  /\ fs = [n \in {"input"} |-> input_file]
  /\ exit_code = -1
  /\ uncaught = ""
  /\ ParseIdle
  /\ GuidIdle

\* The line the load loop is at, and the Mapping built from it.
line == input_file[lineno + 1]

\* Mapping() of every pool line, evaluated once: the constructor uses its
\* linenumber argument only to store it in the object.
PoolMappings ==
  [l \in LinePool, amp \in BOOLEAN |-> Mapping(l, 0, amp)]

\* self.linenumber = linenumber
WithLineNumber(m, linenumber) ==
  IF m.status = "ok" THEN [m EXCEPT !.linenumber = linenumber] ELSE m

\* mapping = Mapping(line, lineno + 1, args.add_missing_platform)
mapping ==
  WithLineNumber(PoolMappings[line, args.add_missing_platform], lineno + 1)

IsSkipped(l) == StartsWith(l, <<"#">>) \/ l = <<NL>>

\* guid in mappings_dict[platform]
HasKey(p_dict, guid) == \E i \in 1..Len(p_dict) : p_dict[i].guid = guid

\* mappings_dict[platform][guid]
Lookup(p_dict, guid) ==
  p_dict[CHOOSE i \in 1..Len(p_dict) : p_dict[i].guid = guid].mapping

Loading == pc = "load" /\ lineno < Len(input_file)

\* A comment or blank line: continue.
SkipLine ==
  /\ Loading
  /\ IsSkipped(line)
  /\ lineno' = lineno + 1
  /\ UNCHANGED <<args, input_file, mappings_dict, success, stdout, pc,
                 converted, fs, exit_code, uncaught>>
  /\ UNCHANGED <<parseVars, guidVars>>

\* The constructor raised ValueError: report, success = False, continue.
ParseError ==
  /\ Loading
  /\ ~IsSkipped(line)
  /\ \E m \in {mapping} :
       /\ m.status = "ValueError"
       /\ stdout' = Append(stdout, [kind |-> "error", lineno |-> lineno + 1,
                                    error |-> m.error, previous |-> 0])
       /\ success' = FALSE
       /\ lineno' = lineno + 1
       /\ UNCHANGED <<args, input_file, mappings_dict, pc, converted, fs,
                      exit_code, uncaught>>
       /\ UNCHANGED <<parseVars, guidVars>>

\* The constructor raised something the except clause does not catch: the
\* exception leaves main() and the interpreter exits with status 1.
UncaughtError ==
  /\ Loading
  /\ ~IsSkipped(line)
  /\ \E m \in {mapping} :
       /\ m.status \notin {"ok", "ValueError"}
       /\ uncaught' = m.status
       /\ exit_code' = 1
       /\ pc' = "exit"
       /\ UNCHANGED <<args, input_file, lineno, mappings_dict, success, stdout,
                      converted, fs>>
       /\ UNCHANGED <<parseVars, guidVars>>

\* The duplicate branch as it would be without its continue: the report is
\* printed and the assignment after the branch replaces the stored record.
Duplicate_overwrites ==
  /\ Loading
  /\ ~IsSkipped(line)
  /\ \E m \in {mapping} :
       /\ m.status = "ok"
       /\ HasKey(mappings_dict[m.platform], m.guid)
       /\ stdout' = Append(stdout,
             [kind |-> "duplicate", lineno |-> lineno + 1, error |-> "",
              previous |-> Lookup(mappings_dict[m.platform],
                                  m.guid).linenumber])
       /\ success' = FALSE
       /\ mappings_dict' =
            [mappings_dict EXCEPT ![m.platform] =
               [i \in 1..Len(@) |-> IF @[i].guid = m.guid
                                    THEN [guid |-> m.guid, mapping |-> m]
                                    ELSE @[i]]]
       /\ lineno' = lineno + 1
       /\ UNCHANGED <<args, input_file, pc, converted, fs, exit_code, uncaught>>
       /\ UNCHANGED <<parseVars, guidVars>>

\* The guid is already a key of the platform's dict: report both lines.
Duplicate ==
  /\ Loading
  /\ ~IsSkipped(line)
  /\ \E m \in {mapping} :
       /\ m.status = "ok"
       /\ HasKey(mappings_dict[m.platform], m.guid)
       /\ stdout' = Append(stdout,
             [kind |-> "duplicate", lineno |-> lineno + 1, error |-> "",
              previous |-> Lookup(mappings_dict[m.platform],
                                  m.guid).linenumber])
       /\ success' = FALSE
       /\ lineno' = lineno + 1
       /\ UNCHANGED <<args, input_file, mappings_dict, pc, converted, fs,
                      exit_code, uncaught>>
       /\ UNCHANGED <<parseVars, guidVars>>

\* mappings_dict[mapping.platform][mapping.guid] = mapping
Insert ==
  /\ Loading
  /\ ~IsSkipped(line)
  /\ \E m \in {mapping} :
       /\ m.status = "ok"
       /\ ~HasKey(mappings_dict[m.platform], m.guid)
       /\ mappings_dict' =
            [mappings_dict EXCEPT ![m.platform] =
               Append(@, [guid |-> m.guid, mapping |-> m])]
       /\ lineno' = lineno + 1
       /\ UNCHANGED <<args, input_file, success, stdout, pc, converted, fs,
                      exit_code, uncaught>>
       /\ UNCHANGED <<parseVars, guidVars>>

\* The end of the loop as it would be without the sys.exit(1) branch.
LoadFailed_goes_on ==
  /\ pc = "load"
  /\ lineno = Len(input_file)
  /\ ~success
  /\ pc' = "convert"
  /\ UNCHANGED <<args, input_file, lineno, mappings_dict, success, stdout,
                 converted, fs, exit_code, uncaught>>
  /\ UNCHANGED <<parseVars, guidVars>>

\* After the loop, success is False: sys.exit(1).
LoadFailed ==
  /\ pc = "load"
  /\ lineno = Len(input_file)
  /\ ~success
  /\ pc' = "exit"
  /\ exit_code' = 1
  /\ UNCHANGED <<args, input_file, lineno, mappings_dict, success, stdout,
                 converted, fs, uncaught>>
  /\ UNCHANGED <<parseVars, guidVars>>

\* After the loop, success is True: go on to the tools.
LoadSucceeded ==
  /\ pc = "load"
  /\ lineno = Len(input_file)
  /\ success
  /\ pc' = "convert"
  /\ UNCHANGED <<args, input_file, lineno, mappings_dict, success, stdout,
                 converted, fs, exit_code, uncaught>>
  /\ UNCHANGED <<parseVars, guidVars>>

\* The mappings in the order the two nested loops visit them.
RECURSIVE ItemsFrom(_, _)
ItemsFrom(d, i) ==
  IF i > Len(Platforms) THEN <<>>
  ELSE [j \in 1..Len(d[Platforms[i]]) |-> <<Platforms[i], j>>]
         \o ItemsFrom(d, i + 1)

Items(d) == ItemsFrom(d, 1)

\* --convert_guids not given.
ConvertSkipped ==
  /\ pc = "convert"
  /\ ~args.convert_guids
  /\ pc' = "format"
  /\ UNCHANGED <<args, input_file, lineno, mappings_dict, success, stdout,
                 converted, fs, exit_code, uncaught>>
  /\ UNCHANGED <<parseVars, guidVars>>

\* One iteration of the conversion loop: mapping.convert_guid() changes the
\* object in place; the dict key it is stored under stays as it was.
ConvertGuid ==
  /\ pc = "convert"
  /\ args.convert_guids
  /\ converted < Len(Items(mappings_dict))
  /\ LET at == Items(mappings_dict)[converted + 1]
     IN mappings_dict' =
          [mappings_dict EXCEPT ![at[1]][at[2]].mapping = convert_guid(@)]
  /\ converted' = converted + 1
  /\ UNCHANGED <<args, input_file, lineno, success, stdout, pc, fs,
                 exit_code, uncaught>>
  /\ UNCHANGED <<parseVars, guidVars>>

\* The conversion loop is over.
ConvertDone ==
  /\ pc = "convert"
  /\ args.convert_guids
  /\ converted = Len(Items(mappings_dict))
  /\ pc' = "format"
  /\ UNCHANGED <<args, input_file, lineno, mappings_dict, success, stdout,
                 converted, fs, exit_code, uncaught>>
  /\ UNCHANGED <<parseVars, guidVars>>

\* --format not given: main() returns.
FormatSkipped ==
  /\ pc = "format"
  /\ ~args.format
  /\ pc' = "exit"
  /\ exit_code' = 0
  /\ UNCHANGED <<args, input_file, lineno, mappings_dict, success, stdout,
                 converted, fs, uncaught>>
  /\ UNCHANGED <<parseVars, guidVars>>

\* sorted(p_dict.items(), key=lambda x: x[1].name.lower()): a stable sort.
RECURSIVE SortedByName(_)
SortedByName(p_dict) ==
  IF p_dict = <<>> THEN <<>>
  ELSE LET key(i) == Lower(p_dict[i].mapping.name)
           first == CHOOSE i \in 1..Len(p_dict) :
                      /\ \A j \in 1..Len(p_dict) : ~StrLess(key(j), key(i))
                      /\ \A j \in 1..(i - 1) : StrLess(key(i), key(j))
       IN <<p_dict[first]>> \o SortedByName(Pop(p_dict, first))

\* The strings written for the platforms from the i-th on.
RECURSIVE FormatPlatforms(_, _)
FormatPlatforms(d, i) ==
  IF i > Len(Platforms) THEN <<>>
  ELSE LET items == SortedByName(d[Platforms[i]])
       IN << <<NL>>, <<"#", " ">> \o Platforms[i] \o <<NL>> >>
            \o [j \in 1..Len(items) |-> serialize(items[j].mapping) \o <<NL>>]
            \o FormatPlatforms(d, i + 1)

\* The formatted database is written to <input>_format.txt and closed.
WriteFormatted ==
  /\ pc = "format"
  /\ args.format
  /\ fs' = [n \in DOMAIN fs \cup {"format"} |->
              IF n = "format"
              THEN <<FILE_HEADER>> \o FormatPlatforms(mappings_dict, 1)
              ELSE fs[n]]
  /\ pc' = "backup"
  /\ UNCHANGED <<args, input_file, lineno, mappings_dict, success, stdout,
                 converted, exit_code, uncaught>>
  /\ UNCHANGED <<parseVars, guidVars>>

\* shutil.copyfile(input_file.name, backup_filename)
CopyBackup ==
  /\ pc = "backup"
  /\ fs' = [n \in DOMAIN fs \cup {"backup"} |->
              IF n = "backup" THEN fs["input"] ELSE fs[n]]
  /\ pc' = "move"
  /\ UNCHANGED <<args, input_file, lineno, mappings_dict, success, stdout,
                 converted, exit_code, uncaught>>
  /\ UNCHANGED <<parseVars, guidVars>>

\* shutil.move(out_filename, input_file.name), then main() returns.
MoveFormatted ==
  /\ pc = "move"
  /\ fs' = [n \in DOMAIN fs \ {"format"} |->
              IF n = "input" THEN fs["format"] ELSE fs[n]]
  /\ pc' = "exit"
  /\ exit_code' = 0
  /\ UNCHANGED <<args, input_file, lineno, mappings_dict, success, stdout,
                 converted, uncaught>>
  /\ UNCHANGED <<parseVars, guidVars>>

Next ==
  \/ SkipLine
  \/ ParseError
  \/ UncaughtError
  \/ Duplicate
  \/ Insert
  \/ LoadFailed
  \/ LoadSucceeded
  \/ ConvertSkipped
  \/ ConvertGuid
  \/ ConvertDone
  \/ FormatSkipped
  \/ WriteFormatted
  \/ CopyBackup
  \/ MoveFormatted

Spec == Init /\ [][Next]_vars

(* ---- one line through Mapping(), serialize() and Mapping() again -------- *)

\* Largest number of control tokens of a modelled line.
MaxTokens == 2

\* The leading fields of the modelled lines: guid, name and, except in the
\* last, the platform.  Names are plain, quoted with a comma inside, and
\* quoted with a leading space.
HeadPool ==
  { <<"0", "3", "0", "0", "0", "0", "0", "0", "5", "e", "0", "4", "0", "0", "0", "0", "a", "1", "0", "2", "0", "0", "0", "0", "0", "0", "0", "1", "0", "0", "0", "0", ",", "P", "a", "d", " ", " ", "O", "n", "e", ",", "p", "l", "a", "t", "f", "o", "r", "m", ":", "L", "i", "n", "u", "x", ",">>,
    <<"0", "3", "0", "0", "0", "0", "0", "0", "5", "e", "0", "4", "0", "0", "0", "0", "a", "1", "0", "2", "0", "0", "0", "0", "0", "0", "0", "1", "0", "0", "0", "0", ",", "\"", "P", "a", "d", ",", " ", "O", "n", "e", "\"", ",", "p", "l", "a", "t", "f", "o", "r", "m", ":", "L", "i", "n", "u", "x", ",">>,
    <<"0", "3", "0", "0", "0", "0", "0", "0", "5", "e", "0", "4", "0", "0", "0", "0", "a", "1", "0", "2", "0", "0", "0", "0", "0", "0", "0", "1", "0", "0", "0", "0", ",", "\"", " ", "P", "a", "d", "\"", ",", "p", "l", "a", "t", "f", "o", "r", "m", ":", "L", "i", "n", "u", "x", ",">>,
    <<"6", "d", "0", "4", "0", "0", "0", "0", "0", "0", "0", "0", "0", "0", "0", "0", "1", "6", "c", "2", "0", "0", "0", "0", "0", "0", "0", "0", "0", "0", "0", "0", ",", "M", "a", "c", " ", "P", "a", "d", ",">> }

\* Values tried under the key a.
ValuePool ==
  { <<"b", "0">>, <<"b", "1">>, <<"b", "1", "b", "2">>, <<"b", "1", "~">>, <<"a", "2", "~">>, <<"+", "a", "3">>, <<"-", "a", "4", "~">>, <<"a", "+", "a", "1">>,
    <<"h", "0", ".", "1">>, <<"h", "1", ".", "1", "2">>, <<"h", "1", ".", "h", "1">>, <<"h", "5", ".", "5">>, <<"h", "0", ".", "1", "5">>, <<"x", "5">>, <<"5">>, <<>> }

\* The eight signed half-axis names, and other names tried as keys.
HalfAxisNames ==
  { <<"+", "l", "e", "f", "t", "x">>, <<"+", "l", "e", "f", "t", "y">>, <<"+", "r", "i", "g", "h", "t", "x">>, <<"+", "r", "i", "g", "h", "t", "y">>,
    <<"-", "l", "e", "f", "t", "x">>, <<"-", "l", "e", "f", "t", "y">>, <<"-", "r", "i", "g", "h", "t", "x">>, <<"-", "r", "i", "g", "h", "t", "y">> }

KeyPool ==
  HalfAxisNames \cup { <<"+", "r", "i", "g", "h", "t", "y", "-", "l", "e", "f", "t", "x">>, <<"l", "e", "f", "t", "x">>, <<"d", "p", "u", "p">>, <<"z", "z">> }

TokenPool ==
  {<<"a", ":">> \o v : v \in ValuePool}
    \cup {k \o <<":", "a", "1">> : k \in KeyPool}
    \cup {<<"x", ":", "b", "2">>, <<"x", ":", "h", "1", ".", "h", "1">>, <<"a">>, <<"a", ":", "b", "0", ":", "b", "1">>}

RECURSIVE TokensOfLength(_)
TokensOfLength(n) ==
  IF n = 0 THEN {<<>>}
  ELSE {Append(ts, tk) : ts \in TokensOfLength(n - 1), tk \in TokenPool}

RECURSIVE Join(_)
Join(tokens) ==
  IF tokens = <<>> THEN <<>>
  ELSE Head(tokens) \o <<",">> \o Join(Tail(tokens))

\* The line under test: the head, then every token followed by a comma.
LineOf(head, tokens) == head \o Join(tokens)

InitParse ==
  /\ p_head \in HeadPool
  /\ p_tokens \in UNION {TokensOfLength(n) : n \in 0..MaxTokens}
  /\ p_amp \in BOOLEAN
  /\ p_mapping = NoMapping
  /\ p_text = <<>>
  /\ p_again = NoMapping
  /\ p_pc = "line"
  /\ MainIdle
  /\ GuidIdle

\* mapping = Mapping(line, 1, add_missing_platform)
Construct ==
  /\ p_pc = "line"
  /\ p_mapping' = Mapping(LineOf(p_head, p_tokens), 1, p_amp)
  /\ p_pc' = "mapping"
  /\ UNCHANGED <<p_head, p_tokens, p_amp, p_text, p_again>>
  /\ UNCHANGED <<mainVars, guidVars>>

\* text = mapping.serialize()
Serialize ==
  /\ p_pc = "mapping"
  /\ p_mapping.status = "ok"
  /\ p_text' = serialize(p_mapping)
  /\ p_pc' = "text"
  /\ UNCHANGED <<p_head, p_tokens, p_amp, p_mapping, p_again>>
  /\ UNCHANGED <<mainVars, guidVars>>

\* again = Mapping(text, 1, add_missing_platform)
ConstructAgain ==
  /\ p_pc = "text"
  /\ p_again' = Mapping(p_text, 1, p_amp)
  /\ p_pc' = "again"
  /\ UNCHANGED <<p_head, p_tokens, p_amp, p_mapping, p_text>>
  /\ UNCHANGED <<mainVars, guidVars>>

NextParse ==
  \/ Construct
  \/ Serialize
  \/ ConstructAgain

SpecParse == InitParse /\ [][NextParse]_vars

(* ---- convert_guid() called repeatedly on one object --------------------- *)

\* Largest number of convert_guid() calls on the object.
MaxApply == 2

\* GUIDs assembled from 4-character groups and a 12-character tail: legacy
\* Windows and Mac OS X layouts, current layouts, near misses, mixed case.
GuidPool ==
  {a \o b \o c \o d \o e \o tail :
     a \in {<<"7", "8", "6", "9">>, <<"0", "3", "0", "0">>, <<"A", "b", "C", "d">>},
     b \in {<<"6", "e", "7", "0">>, <<"0", "0", "0", "0">>},
     c \in {<<"7", "5", "7", "4">>, <<"0", "0", "0", "0">>},
     d \in {<<"0", "1", "0", "0">>, <<"0", "0", "0", "0">>},
     e \in {<<"1", "6", "c", "2">>, <<"0", "0", "0", "0">>},
     tail \in {PIDVID, ZEROS12, <<"5", "0", "4", "9", "4", "4", "5", "6", "4", "9", "4", "5">>}}
    \cup {<<"x", "i", "n", "p", "u", "t">>}

InitGuid ==
  /\ \E guid \in GuidPool, platform \in PlatformSet :
        /\ set_guid(guid).raised = ""
        /\ g_mapping = [status |-> "ok", error |-> "", detail |-> <<>>,
                        dups |-> <<>>, guid |-> set_guid(guid).guid,
                        name |-> <<"P", "a", "d">>, platform |-> platform,
                        keys |-> NoKeys, linenumber |-> 1]
  /\ g_guids = <<>>
  /\ MainIdle
  /\ ParseIdle

\* mapping.convert_guid()
CallConvertGuid ==
  /\ Len(g_guids) < MaxApply
  /\ g_mapping' = convert_guid(g_mapping)
  /\ g_guids' = Append(g_guids, g_mapping'.guid)
  /\ UNCHANGED <<mainVars, parseVars>>

NextGuid == CallConvertGuid

SpecGuid == InitGuid /\ [][NextGuid]_vars

(* ======================= properties ====================================== *)

\* The Mapping built from line i of the input file.
ParsedLine(i) == PoolMappings[input_file[i], args.add_missing_platform]

\* Line i is a record line that parses.
LineParses(i) == ~IsSkipped(input_file[i]) /\ ParsedLine(i).status = "ok"

\* The first line among 1..n that parses to platform p and guid g (0 if none).
FirstLine(p, g, n) ==
  LET js == {j \in 1..n : /\ LineParses(j)
                          /\ ParsedLine(j).platform = p
                          /\ ParsedLine(j).guid = g}
  IN IF js = {} THEN 0 ELSE CHOOSE j \in js : \A k \in js : j <= k

\* Line i parses and repeats the (platform, guid) of an earlier parsed line.
RepeatsEarlier(i) ==
  LineParses(i) /\ FirstLine(ParsedLine(i).platform, ParsedLine(i).guid, i) < i

\* Line i fails: it does not parse, or it is a duplicate.
LineFailed(i) ==
  ~IsSkipped(input_file[i]) /\ (ParsedLine(i).status # "ok" \/ RepeatsEarlier(i))

AnyLineFailed == \E i \in 1..Len(input_file) : LineFailed(i)

\* Every record still has the guid it was loaded with.
GuidsAsLoaded ==
  \A p \in PlatformSet : \A i \in 1..Len(mappings_dict[p]) :
     mappings_dict[p][i].mapping.guid = mappings_dict[p][i].guid

\* Neither the formatted file nor the backup exists, the input file is as read.
NothingWritten == fs = [n \in {"input"} |-> input_file]

\* C1: in every state of a run, also during and after the --convert_guids
\* pass, no two records held under the same platform have the same guid.
C1_GuidUniquePerPlatform ==
  \A p \in PlatformSet : \A i, j \in 1..Len(mappings_dict[p]) :
     i # j => mappings_dict[p][i].mapping.guid # mappings_dict[p][j].mapping.guid

\* C2: a load step over any line leaves the loader in the load loop at the
\* next line; when the line is a record line that fails to parse, the step
\* records one error for that line and changes no record.
C2_LineFailureIsLocal ==
  [][(pc = "load" /\ lineno < Len(input_file)) =>
       /\ pc' = "load"
       /\ lineno' = lineno + 1
       /\ (~IsSkipped(input_file[lineno + 1])
             /\ ParsedLine(lineno + 1).status # "ok") =>
            /\ Len(stdout') = Len(stdout) + 1
            /\ stdout'[Len(stdout')].kind = "error"
            /\ stdout'[Len(stdout')].lineno = lineno + 1
            /\ mappings_dict' = mappings_dict]_vars

\* The state is past the first Mapping() of the line under test.
Constructed == p_pc \in {"mapping", "text", "again"}

\* The guid, name and platform of the line under test are valid.
HeadValid == Mapping(p_head, 1, p_amp).status = "ok"

RecognizedPrefixes == <<<<"+", "a">>, <<"-", "a">>, <<"a">>, <<"b">>, <<"h">>>>

HasRecognizedPrefix(v) ==
  \E j \in 1..Len(RecognizedPrefixes) : StartsWith(v, RecognizedPrefixes[j])

\* C3: a token key:value whose key is in the closed key set and not yet
\* assigned, and whose value starts with none of the five prefixes, makes the
\* parse fail with "Invalid value."; the record is never accepted.
C3_UnprefixedValueRejected ==
  Constructed =>
    \A i \in 1..Len(p_tokens) :
      LET parts == Split(p_tokens[i], ":")
          before == Mapping(LineOf(p_head, SubSeq(p_tokens, 1, i - 1)), 1, p_amp)
      IN (/\ Len(parts) = 2
          /\ before.status = "ok"
          /\ parts[1] \in KeyNames
          /\ parts[1] \notin DOMAIN before.keys
          /\ ~HasRecognizedPrefix(parts[2]))
         => (p_mapping.status = "ValueError" /\ p_mapping.error = "Invalid value.")

\* Token j has the key of an earlier token.
RepeatsKey(j) ==
  \E i \in 1..(j - 1) : Split(p_tokens[i], ":")[1] = Split(p_tokens[j], ":")[1]

\* C4: on a line with valid guid, name and platform on which a control key
\* appears in two or more tokens and no other error is raised, the parse
\* fails with "Duplicate keys detected." and lists every repeated occurrence.
C4_DuplicateKeysAllReported ==
  (/\ Constructed
   /\ HeadValid
   /\ \A i \in 1..Len(p_tokens) : Len(Split(p_tokens[i], ":")) = 2
   /\ \E j \in 1..Len(p_tokens) : RepeatsKey(j)
   /\ p_mapping.error \in {"", "Duplicate keys detected."})
  => /\ p_mapping.status = "ValueError"
     /\ p_mapping.error = "Duplicate keys detected."
     /\ {p_mapping.dups[n].kv : n \in 1..Len(p_mapping.dups)}
          = {p_tokens[j] : j \in {k \in 1..Len(p_tokens) : RepeatsKey(k)}}

\* C5: the text serialize() gives for a parsed record parses again, to a
\* record with the same guid, name, platform and control mapping.
C5_RoundTrip ==
  p_pc = "again" =>
    /\ p_again.status = "ok"
    /\ p_again.guid = p_mapping.guid
    /\ p_again.name = p_mapping.name
    /\ p_again.platform = p_mapping.platform
    /\ p_again.keys = p_mapping.keys

\* The object under conversion is a Windows record with a 32-character guid.
WindowsRecord ==
  g_mapping.platform = <<"W", "i", "n", "d", "o", "w", "s">> /\ Len(g_mapping.guid) = 32

\* C6: for a Windows record with a valid 32-character guid, the guid after
\* the first convert_guid() has no legacy sentinel at positions 20..32, and
\* every later call leaves the guid as the first call left it.
C6_WindowsConvertIdempotent ==
  WindowsRecord =>
    \A n \in 1..Len(g_guids) :
       /\ Slice(g_guids[n], 20, 32) # PIDVID
       /\ g_guids[n] = g_guids[1]

\* A legacy Windows guid was rewritten by the first call and a second call
\* has been made.
C6_Witness ==
  /\ WindowsRecord
  /\ Len(g_guids) = 2
  /\ g_guids[1] = <<"0", "3", "0", "0", "0", "0", "0", "0", "7", "8", "6", "9", "0", "1", "0", "0", "6", "e", "7", "0", "0", "0", "0", "0", "0", "0", "0", "0", "0", "0", "0", "0">>
  /\ g_mapping.guid = g_guids[2]

RECURSIVE FirstRecords(_, _)
FirstRecords(p, n) ==
  IF n = 0 THEN <<>>
  ELSE IF LineParses(n) /\ ParsedLine(n).platform = p
            /\ FirstLine(p, ParsedLine(n).guid, n) = n
       THEN Append(FirstRecords(p, n - 1),
                   [guid |-> ParsedLine(n).guid,
                    mapping |-> [ParsedLine(n) EXCEPT !.linenumber = n]])
       ELSE FirstRecords(p, n - 1)

\* C8: a parsed line repeating the (platform, guid) of an earlier line is
\* reported with the number of the first line that introduced the pair and
\* is not inserted: until the conversion pass changes a guid, each dict holds
\* exactly the record of the first line of each pair.
C8_DuplicateKeepsFirst ==
  /\ \A n \in 1..Len(stdout) :
        stdout[n].kind = "duplicate" =>
          /\ LineParses(stdout[n].lineno)
          /\ stdout[n].previous < stdout[n].lineno
          /\ stdout[n].previous =
               FirstLine(ParsedLine(stdout[n].lineno).platform,
                         ParsedLine(stdout[n].lineno).guid, stdout[n].lineno)
  /\ \A i \in 1..lineno :
        RepeatsEarlier(i) =>
          \E n \in 1..Len(stdout) :
             stdout[n].kind = "duplicate" /\ stdout[n].lineno = i
  /\ converted = 0 =>
        \A p \in PlatformSet : mappings_dict[p] = FirstRecords(p, lineno)

\* Lines 2 and 3 both repeated the pair of line 1 and were both reported
\* against line 1, whose record the dict still holds.
C8_Witness ==
  /\ lineno = 3
  /\ \E a, b \in 1..Len(stdout) :
        /\ stdout[a] = [kind |-> "duplicate", lineno |-> 2, error |-> "",
                        previous |-> 1]
        /\ stdout[b] = [kind |-> "duplicate", lineno |-> 3, error |-> "",
                        previous |-> 1]
  /\ \E p \in PlatformSet :
        /\ Len(mappings_dict[p]) = 1
        /\ mappings_dict[p][1].mapping.linenumber = 1

\* A value in the documented grammar: the first of the five prefixes the
\* value starts with, then a remainder in that kind's pattern.
WellFormedValue(v) ==
  \E j \in 1..Len(RecognizedPrefixes) :
     LET rest == SubSeq(v, Len(RecognizedPrefixes[j]) + 1, Len(v))
     IN /\ StartsWith(v, RecognizedPrefixes[j])
        /\ \A i \in 1..(j - 1) : ~StartsWith(v, RecognizedPrefixes[i])
        /\ CASE j \in {1, 2, 3} -> AxisBody(rest)
             [] j = 4 -> AllDigits(rest)
             [] j = 5 -> HatBody(rest)

\* C9: every value stored in an accepted record is one recognized prefix
\* followed by a remainder in that kind's pattern.
C9_StoredValuesWellFormed ==
  (Constructed /\ p_mapping.status = "ok") =>
    \A k \in DOMAIN p_mapping.keys : WellFormedValue(p_mapping.keys[k])

\* The documented control names.
DocumentedNames ==
  HalfAxisNames \cup
  { <<"a">>, <<"b">>, <<"b", "a", "c", "k">>, <<"d", "p", "d", "o", "w", "n">>, <<"d", "p", "l", "e", "f", "t">>, <<"d", "p", "r", "i", "g", "h", "t">>, <<"d", "p", "u", "p">>,
    <<"g", "u", "i", "d", "e">>, <<"l", "e", "f", "t", "s", "h", "o", "u", "l", "d", "e", "r">>, <<"l", "e", "f", "t", "s", "t", "i", "c", "k">>, <<"l", "e", "f", "t", "t", "r", "i", "g", "g", "e", "r">>,
    <<"l", "e", "f", "t", "x">>, <<"l", "e", "f", "t", "y">>, <<"r", "i", "g", "h", "t", "s", "h", "o", "u", "l", "d", "e", "r">>, <<"r", "i", "g", "h", "t", "s", "t", "i", "c", "k">>,
    <<"r", "i", "g", "h", "t", "t", "r", "i", "g", "g", "e", "r">>, <<"r", "i", "g", "h", "t", "x">>, <<"r", "i", "g", "h", "t", "y">>, <<"s", "t", "a", "r", "t">>, <<"x">>, <<"y">> }

\* C10: a token using one of the eight signed half-axis names with a valid
\* value, on a line that is otherwise accepted, is accepted and stored
\* under that name; no accepted record has a key outside the documented names.
C10_HalfAxisNamesAreKeys ==
  Constructed =>
    /\ p_mapping.status = "ok" => DOMAIN p_mapping.keys \subseteq DocumentedNames
    /\ \A i \in 1..Len(p_tokens) :
         LET parts == Split(p_tokens[i], ":")
             others == Mapping(LineOf(p_head, Pop(p_tokens, i)), 1, p_amp)
         IN (/\ Len(parts) = 2
             /\ parts[1] \in HalfAxisNames
             /\ WellFormedValue(parts[2])
             /\ others.status = "ok"
             /\ parts[1] \notin DOMAIN others.keys)
            => /\ p_mapping.status = "ok"
               /\ parts[1] \in DOMAIN p_mapping.keys
               /\ p_mapping.keys[parts[1]] = parts[2]

=============================================================================
